---- MODULE Spec2Model ----
(***************************************************************************)
(* volfade-rs (src/main.rs): one invocation of the tool performs one of    *)
(* increase / decrease / mute / unmute / toggle-mute on the default sink.  *)
(* The model runs up to MaxOps invocations one after another.  Each action *)
(* is one step of the program: one loop iteration of inc_vol / dec_vol,    *)
(* one statement of mute / unmute / toggle_mute.                           *)
(*                                                                         *)
(* Volumes are PulseAudio volume units (u32): 0 is Volume::MUTED, 65536 is *)
(* Volume::NORMAL (100%), 2^31-1 is Volume::MAX.  The device is a sink     *)
(* with balanced channels, so that its average volume (what                *)
(* get_current_vol reads) is the value the relative steps act on.          *)
(***************************************************************************)
EXTENDS Integers, Sequences, FiniteSets, TLC

\* ---------------------------------------------------------------- constants
PA_VOLUME_MUTED == 0
PA_VOLUME_NORM == 65536
PA_VOLUME_MAX == 2147483647

DEFAULT_VOLUME == PA_VOLUME_NORM \div 4
DEFAULT_INCREMENT == 5
DEFAULT_DECREMENT == 5
INC_STEPS == 10
DEC_STEPS == 10
FADE_IN_INCREMENT_PER_STEP == 9
FADE_OUT_DECREMENT_PER_STEP == 20

\* ------------------------------------------------------------------- bounds
\* number of invocations of the tool run one after another
MaxOps == 2

\* the history of device calls kept for the properties records this many
\* entries of one invocation (a fade that never ends makes no end of calls)
MaxEvents == 24

\* percent arguments the command line is given (clap parses an f64; the
\* model draws whole percents, among them every built-in default)
Percents == {DEFAULT_INCREMENT, FADE_IN_INCREMENT_PER_STEP, FADE_OUT_DECREMENT_PER_STEP}

\* volumes the sink has when the first invocation starts
StartVolumes == {PA_VOLUME_MUTED, 1, DEFAULT_VOLUME \div 2, PA_VOLUME_NORM \div 2}

\* ------------------------------------------------------------ pure helpers
Max(a, b) == IF a >= b THEN a ELSE b
Min(a, b) == IF a <= b THEN a ELSE b

\* pulsectl's volume_from_percent(delta) as u32, for delta = (p / 100) / steps:
\* the fraction of Volume::NORMAL, truncated toward zero; a negative f64 cast
\* to u32 saturates to 0.  (For whole percents below 125 the exact value
\* p * 65.536 is never within f64 rounding distance of an integer.)
VolumeFromPercent(p, steps) ==
    IF p <= 0 THEN 0 ELSE (p * PA_VOLUME_NORM) \div (100 * steps)

\* inc_vol line 133 together with the delta the device call derives from it
IncDelta(increment) == VolumeFromPercent(increment, INC_STEPS)

\* faulty variant of DecDelta: the total percent is not divided by DEC_STEPS
DecDelta_UsesTotal(decrement) == VolumeFromPercent(decrement, 1)

\* dec_vol line 152 together with the delta the device call derives from it
DecDelta(decrement) == VolumeFromPercent(decrement, DEC_STEPS)

\* ChannelVolumes::increase (pa_cvolume_inc): clamp at Volume::MAX; an invalid
\* increment leaves the volume alone
IncreaseBy(v, d) ==
    IF d > PA_VOLUME_MAX THEN v
    ELSE IF v >= PA_VOLUME_MAX - d THEN PA_VOLUME_MAX ELSE v + d

\* faulty variant of DecreaseBy: no clamp at Volume::MUTED
DecreaseBy_NoClamp(v, d) == v - d

\* ChannelVolumes::decrease (pa_cvolume_dec): clamp at Volume::MUTED
DecreaseBy(v, d) ==
    IF d > PA_VOLUME_MAX THEN v
    ELSE IF v <= PA_VOLUME_MUTED + d THEN PA_VOLUME_MUTED ELSE v - d

\* faulty variant of ToLeBytes: the bytes in big-endian order
ToLeBytes_BigEndian(v) ==
    << (v \div 16777216) % 256, (v \div 65536) % 256, (v \div 256) % 256, v % 256 >>

\* u32::to_le_bytes
ToLeBytes(v) ==
    << v % 256, (v \div 256) % 256, (v \div 65536) % 256, (v \div 16777216) % 256 >>

\* u32::from_le_bytes on a 4-byte array
FromLeBytes(b) == b[1] + 256 * b[2] + 65536 * b[3] + 16777216 * b[4]

\* the cache file: absent (no element), or one element, its bytes
NoFile == << >>
FileOf(bytes) == << bytes >>
Bytes(f) == f[1]

\* cache files found when the first invocation starts: none, one written by an
\* earlier run, and two that are not four bytes long
StartFiles ==
    {NoFile, FileOf(ToLeBytes(DEFAULT_VOLUME \div 2 + 3)), FileOf(<<0, 64>>),
     FileOf(<<0, 0, 1, 0, 0>>)}

\* which environment variable resolves the cache directory
Envs == {"XDG_CACHE_HOME", "HOME", "unset"}

Commands == {"increase", "decrease", "mute", "unmute", "toggle-mute"}

VARIABLES
    vol,            \* sink volume (average over the channels)
    muted,          \* sink mute flag
    env,            \* XDG_CACHE_HOME set / only HOME set / neither
    parentExists,   \* $XDG_CACHE_HOME, resp. $HOME/.cache, is a directory
    dirExists,      \* <parent>/volfade-rs is a directory
    file,           \* <parent>/volfade-rs/previous_volume
    pc,             \* position of the running invocation
    cmd,            \* its subcommand
    arg,            \* the percent handed to mute / unmute / inc_vol / dec_vol
    ret,            \* where inc_vol / dec_vol returns to
    i,              \* loop counter of inc_vol / dec_vol
    has_target,     \* inc_vol's target_volume is Some(_)
    target_volume,  \* unmute's target_volume
    vol_buffer,     \* mute's vol_buffer
    err,            \* the panic that ended the invocation, or "none"
    \* history of the running invocation
    startVol, startMuted, startFile,
    saves,          \* cache writes so far
    events,         \* order of "dec" / "inc" / "flag" / "unflag" / "save"
    callStart,      \* volume when the running inc_vol / dec_vol call began
    \* history across invocations
    nOps,           \* invocations started
    prevCmd, prevPc, prevStartVol, prevStartFile,   \* the invocation before
    preMute,        \* volume the sink had when the most recent mute that
                    \* faded out and completed began; -1 before any
    \* the surroundings of the running invocation
    serverUp,       \* the sound server answers
    defaultIsDev,   \* the default sink is still the one main resolved
    otherVol,       \* volume of the other sink
    \* a second invocation, `mute`, running at the same time
    pc2, i2, vol_buffer2

dev == << vol, muted >>
fs == << env, parentExists, dirExists, file >>
locals == << pc, cmd, arg, ret, i, has_target, target_volume, vol_buffer, err >>
hist == << startVol, startMuted, startFile, saves, events, callStart >>
prev == << nOps, prevCmd, prevPc, prevStartVol, prevStartFile, preMute >>
server == << serverUp, defaultIsDev, otherVol >>
proc2 == << pc2, i2, vol_buffer2 >>
world == << server, proc2 >>
vars == << dev, fs, locals, hist, prev, world >>

\* the failures of the sound server main and get_current_vol report
ConnectErr == "Could not create PulseAudio handler"
DeviceErr == "Could not get default playback device."

\* get_current_vol / CurrentVolume::get: the average volume of whichever sink
\* is the default when the read is made
GetCurrentVol == IF defaultIsDev THEN vol ELSE otherVol

Note(e) ==
    IF events # << >> /\ events[Len(events)] = e THEN events
    ELSE IF Len(events) >= MaxEvents THEN events
    ELSE Append(events, e)

Init ==
    /\ vol \in StartVolumes
    /\ muted \in BOOLEAN
    /\ env \in Envs
    /\ parentExists \in BOOLEAN
    /\ dirExists \in BOOLEAN
    /\ file \in StartFiles
    /\ dirExists => parentExists
    /\ file # NoFile => dirExists
    /\ pc = "idle" /\ cmd = "none" /\ arg = 0 /\ ret = "none" /\ i = 0
    /\ has_target = FALSE /\ target_volume = 0 /\ vol_buffer = 0 /\ err = "none"
    /\ startVol = vol /\ startMuted = muted /\ startFile = file
    /\ saves = 0 /\ events = << >> /\ callStart = 0
    /\ nOps = 0 /\ prevCmd = "none" /\ prevPc = "idle" /\ prevStartVol = 0
    /\ prevStartFile = NoFile /\ preMute = -1
    /\ serverUp = TRUE /\ defaultIsDev = TRUE
    /\ otherVol = PA_VOLUME_NORM
    /\ pc2 = "idle" /\ i2 = 0 /\ vol_buffer2 = 0

\* ------------------------------------------------------------ VolumeCache
\* VolumeCache::get_path: the panic it ends in, or "none"
GetPathErr ==
    IF env = "unset" THEN "HOME environment variable not set"
    ELSE IF ~dirExists /\ ~parentExists THEN "Failed to create cache directory"
    ELSE "none"

\* PreviousVolume::query's decoding of the bytes read
QueryErr(f) ==
    IF f # NoFile /\ Len(Bytes(f)) # 4 THEN "Failed to convert file to u32" ELSE "none"

\* faulty variant of QueryValue: the cache content is ignored
QueryValue_AlwaysDefault(f) == DEFAULT_VOLUME

\* PreviousVolume::query's result: the default without a file, else the decoded bytes
QueryValue(f) == IF f = NoFile THEN DEFAULT_VOLUME ELSE FromLeBytes(Bytes(f))

\* ------------------------------------------------------------------- main
\* main: parse the command line, connect, resolve the default device (the sink
\* the steps act on), dispatch.  Without a sound server main returns Err
\* before any fade.
Start(c, a) ==
    /\ pc \in {"idle", "done", "panic"}
    /\ nOps < MaxOps
    /\ nOps' = nOps + 1
    /\ prevCmd' = cmd /\ prevPc' = pc /\ prevStartVol' = startVol
    /\ prevStartFile' = startFile
    /\ cmd' = c
    /\ arg' = IF c = "toggle-mute" THEN 0 ELSE a
    /\ pc' = IF ~serverUp THEN "panic"
             ELSE CASE c = "increase" -> "inc_unmute"
                    [] c = "decrease" -> "dec_loop"
                    [] c = "mute" -> "mute_check"
                    [] c = "unmute" -> "unmute_query"
                    [] c = "toggle-mute" -> "toggle"
    /\ err' = IF ~serverUp THEN ConnectErr ELSE "none"
    /\ ret' = "main" /\ i' = 0 /\ has_target' = FALSE
    /\ target_volume' = 0 /\ vol_buffer' = 0
    /\ startVol' = vol /\ startMuted' = muted /\ startFile' = file
    /\ saves' = 0 /\ events' = << >> /\ callStart' = vol
    /\ UNCHANGED << dev, fs, preMute, world >>

\* ---------------------------------------------------------------- inc_vol
\* faulty variant of IncUnmute: the mute flag is left as it is
IncUnmute_KeepsFlag ==
    /\ pc = "inc_unmute"
    /\ i' = 0
    /\ callStart' = vol
    /\ pc' = "inc_loop"
    /\ UNCHANGED << dev, fs, cmd, arg, ret, has_target, target_volume, vol_buffer, err,
                    startVol, startMuted, startFile, saves, events, prev, world >>

\* line 136: clear the mute flag (a failure of the device call is not seen)
IncUnmute ==
    /\ pc = "inc_unmute"
    /\ muted' = (IF serverUp THEN FALSE ELSE muted)
    /\ events' = (IF serverUp THEN Note("unflag") ELSE events)
    /\ i' = 0
    /\ callStart' = vol
    /\ pc' = "inc_loop"
    /\ UNCHANGED << vol, fs, cmd, arg, ret, has_target, target_volume, vol_buffer, err,
                    startVol, startMuted, startFile, saves, prev, world >>

\* faulty variant of IncStep: the target is not looked at
IncStep_IgnoresTarget ==
    /\ pc = "inc_loop"
    /\ i < INC_STEPS
    /\ vol' = IncreaseBy(vol, IncDelta(arg))
    /\ i' = i + 1
    /\ events' = Note("inc")
    /\ UNCHANGED << muted, fs, pc, cmd, arg, ret, has_target, target_volume, vol_buffer,
                    err, startVol, startMuted, startFile, saves, callStart, prev, world >>

\* lines 138-148: one iteration that does not break: with a target the current
\* volume is read first (a failed read panics); then the step is applied (a
\* failure of the device call is not seen) and the counter goes up
IncStep ==
    /\ pc = "inc_loop"
    /\ i < INC_STEPS
    /\ IF has_target /\ ~serverUp
       THEN /\ pc' = "panic" /\ err' = DeviceErr
            /\ UNCHANGED << vol, i, events >>
       ELSE /\ ~(has_target /\ GetCurrentVol >= target_volume)
            /\ vol' = (IF serverUp THEN IncreaseBy(vol, IncDelta(arg)) ELSE vol)
            /\ i' = i + 1
            /\ events' = (IF serverUp THEN Note("inc") ELSE events)
            /\ UNCHANGED << pc, err >>
    /\ UNCHANGED << muted, fs, cmd, arg, ret, has_target, target_volume, vol_buffer,
                    startVol, startMuted, startFile, saves, callStart, prev, world >>

\* lines 138-148: the loop ends (all steps applied, or the target is reached)
IncExit ==
    /\ pc = "inc_loop"
    /\ \/ i >= INC_STEPS
       \/ has_target /\ serverUp /\ GetCurrentVol >= target_volume
    /\ pc' = "inc_ret"
    /\ UNCHANGED << dev, fs, cmd, arg, ret, i, has_target, target_volume, vol_buffer,
                    err, hist, prev, world >>

\* line 149: return to unmute's loop, or to main
IncReturn ==
    /\ pc = "inc_ret"
    /\ pc' = IF ret = "unmute" THEN "unmute_loop" ELSE "done"
    /\ UNCHANGED << dev, fs, cmd, arg, ret, i, has_target, target_volume, vol_buffer,
                    err, hist, prev, world >>

\* ---------------------------------------------------------------- dec_vol
\* lines 156-160: one iteration (a failure of the device call is not seen)
DecStep ==
    /\ pc = "dec_loop"
    /\ i < DEC_STEPS
    /\ vol' = (IF serverUp THEN DecreaseBy(vol, DecDelta(arg)) ELSE vol)
    /\ i' = i + 1
    /\ events' = (IF serverUp THEN Note("dec") ELSE events)
    /\ UNCHANGED << muted, fs, pc, cmd, arg, ret, has_target, target_volume, vol_buffer,
                    err, startVol, startMuted, startFile, saves, callStart, prev, world >>

\* lines 156, 161: the loop ends; return to mute's loop, or to main
DecExit ==
    /\ pc = "dec_loop"
    /\ i >= DEC_STEPS
    /\ pc' = IF ret = "mute" THEN "mute_loop" ELSE "done"
    /\ UNCHANGED << dev, fs, cmd, arg, ret, i, has_target, target_volume, vol_buffer,
                    err, hist, prev, world >>

\* ------------------------------------------------------------------- mute
\* faulty variant of MuteCheck: a silent device goes on to the mute flag
MuteCheck_SetsFlag ==
    /\ pc = "mute_check"
    /\ pc' = IF GetCurrentVol = PA_VOLUME_MUTED THEN "mute_flag" ELSE "mute_buf"
    /\ UNCHANGED << dev, fs, cmd, arg, ret, i, has_target, target_volume, vol_buffer,
                    err, hist, prev, world >>

\* lines 164-166: nothing to do on a silent device (a failed read panics)
MuteCheck ==
    /\ pc = "mute_check"
    /\ IF serverUp
       THEN /\ pc' = IF GetCurrentVol = PA_VOLUME_MUTED THEN "done" ELSE "mute_buf"
            /\ err' = err
       ELSE pc' = "panic" /\ err' = DeviceErr
    /\ UNCHANGED << dev, fs, cmd, arg, ret, i, has_target, target_volume, vol_buffer,
                    hist, prev, world >>

\* faulty variant of MuteBuffer: the cache is written before the fade as well
\* (the call commented out on line 169)
MuteBuffer_SaveEarly ==
    /\ pc = "mute_buf"
    /\ vol_buffer' = GetCurrentVol
    /\ IF GetPathErr = "none"
       THEN /\ dirExists' = TRUE
            /\ file' = FileOf(ToLeBytes(GetCurrentVol))
            /\ saves' = saves + 1
            /\ events' = Note("save")
       ELSE UNCHANGED << dirExists, file, saves, events >>
    /\ pc' = "mute_loop"
    /\ UNCHANGED << dev, env, parentExists, cmd, arg, ret, i, has_target, target_volume,
                    err, startVol, startMuted, startFile, callStart, prev, world >>

\* line 170: buffer the current volume (a failed read panics)
MuteBuffer ==
    /\ pc = "mute_buf"
    /\ IF serverUp
       THEN vol_buffer' = GetCurrentVol /\ pc' = "mute_loop" /\ err' = err
       ELSE vol_buffer' = vol_buffer /\ pc' = "panic" /\ err' = DeviceErr
    /\ UNCHANGED << dev, fs, cmd, arg, ret, i, has_target, target_volume, hist,
                    prev, world >>

\* lines 173-175: fade out, one dec_vol call per iteration (a failed read panics)
MuteLoop ==
    /\ pc = "mute_loop"
    /\ IF ~serverUp
       THEN /\ pc' = "panic" /\ err' = DeviceErr /\ UNCHANGED << ret, i, callStart >>
       ELSE /\ err' = err
            /\ IF GetCurrentVol > PA_VOLUME_MUTED
               THEN /\ pc' = "dec_loop" /\ ret' = "mute" /\ i' = 0 /\ callStart' = vol
               ELSE /\ pc' = "mute_flag" /\ UNCHANGED << ret, i, callStart >>
    /\ UNCHANGED << dev, fs, cmd, arg, has_target, target_volume, vol_buffer,
                    startVol, startMuted, startFile, saves, events, prev, world >>

\* line 176: set the mute flag (a failure of the device call is not seen)
MuteSetFlag ==
    /\ pc = "mute_flag"
    /\ muted' = (IF serverUp THEN TRUE ELSE muted)
    /\ events' = (IF serverUp THEN Note("flag") ELSE events)
    /\ pc' = "mute_save"
    /\ UNCHANGED << vol, fs, cmd, arg, ret, i, has_target, target_volume, vol_buffer,
                    err, startVol, startMuted, startFile, saves, callStart, prev, world >>

\* faulty variant of MuteSave: ToFile::_FromCurrentVolume instead of the buffer
MuteSave_FromCurrentVolume ==
    /\ pc = "mute_save"
    /\ IF GetPathErr # "none"
       THEN /\ pc' = "panic" /\ err' = GetPathErr
            /\ UNCHANGED << dirExists, file, saves, events, preMute >>
       ELSE /\ dirExists' = TRUE
            /\ preMute' = startVol
            /\ file' = FileOf(ToLeBytes(GetCurrentVol))
            /\ saves' = saves + 1
            /\ events' = Note("save")
            /\ pc' = "done" /\ err' = err
    /\ UNCHANGED << dev, env, parentExists, cmd, arg, ret, i, has_target,
                    target_volume, vol_buffer, startVol, startMuted, startFile,
                    callStart, nOps, prevCmd, prevPc, prevStartVol, prevStartFile,
                    world >>

\* line 179, VolumeCache::save(FromBuffer(vol_buffer)): resolve the path, write
MuteSave ==
    /\ pc = "mute_save"
    /\ IF GetPathErr # "none"
       THEN /\ pc' = "panic" /\ err' = GetPathErr
            /\ UNCHANGED << dirExists, file, saves, events, preMute >>
       ELSE /\ dirExists' = TRUE
            /\ preMute' = startVol
            /\ file' = FileOf(ToLeBytes(vol_buffer))
            /\ saves' = saves + 1
            /\ events' = Note("save")
            /\ pc' = "done" /\ err' = err
    /\ UNCHANGED << dev, env, parentExists, cmd, arg, ret, i, has_target,
                    target_volume, vol_buffer, startVol, startMuted, startFile,
                    callStart, nOps, prevCmd, prevPc, prevStartVol, prevStartFile,
                    world >>

\* ----------------------------------------------------------------- unmute
\* line 184, PreviousVolume::query: resolve the path, read, decode
UnmuteQuery ==
    /\ pc = "unmute_query"
    /\ IF GetPathErr # "none"
       THEN /\ pc' = "panic" /\ err' = GetPathErr
            /\ UNCHANGED << dirExists, target_volume >>
       ELSE /\ dirExists' = TRUE
            /\ IF QueryErr(file) # "none"
               THEN pc' = "panic" /\ err' = QueryErr(file) /\ target_volume' = target_volume
               ELSE pc' = "unmute_flag" /\ err' = err /\ target_volume' = QueryValue(file)
    /\ UNCHANGED << dev, env, parentExists, file, cmd, arg, ret, i, has_target,
                    vol_buffer, hist, prev, world >>

\* faulty variant of UnmuteClearFlag: the mute flag is left as it is
UnmuteClearFlag_KeepsFlag ==
    /\ pc = "unmute_flag"
    /\ pc' = "unmute_loop"
    /\ UNCHANGED << dev, fs, cmd, arg, ret, i, has_target, target_volume, vol_buffer,
                    err, hist, prev, world >>

\* line 187: clear the mute flag (a failure of the device call is not seen)
UnmuteClearFlag ==
    /\ pc = "unmute_flag"
    /\ muted' = (IF serverUp THEN FALSE ELSE muted)
    /\ events' = (IF serverUp THEN Note("unflag") ELSE events)
    /\ pc' = "unmute_loop"
    /\ UNCHANGED << vol, fs, cmd, arg, ret, i, has_target, target_volume, vol_buffer,
                    err, startVol, startMuted, startFile, saves, callStart, prev, world >>

\* faulty variant of UnmuteLoop: unmute returns without fading in
UnmuteLoop_NoFade ==
    /\ pc = "unmute_loop"
    /\ pc' = "done"
    /\ UNCHANGED << dev, fs, cmd, arg, ret, i, has_target, target_volume, vol_buffer,
                    err, hist, prev, world >>

\* lines 188-190: fade in, one inc_vol call per iteration (a failed read panics)
UnmuteLoop ==
    /\ pc = "unmute_loop"
    /\ IF ~serverUp
       THEN /\ pc' = "panic" /\ err' = DeviceErr /\ UNCHANGED << ret, has_target >>
       ELSE /\ err' = err
            /\ IF GetCurrentVol < target_volume
               THEN /\ pc' = "inc_unmute" /\ ret' = "unmute" /\ has_target' = TRUE
               ELSE /\ pc' = "done" /\ UNCHANGED << ret, has_target >>
    /\ UNCHANGED << dev, fs, cmd, arg, i, target_volume, vol_buffer, hist, prev, world >>

\* ------------------------------------------------------------ toggle_mute
\* faulty variant of ToggleMute: the branch is taken on the mute flag
ToggleMute_ByFlag ==
    /\ pc = "toggle"
    /\ IF ~muted
       THEN pc' = "mute_check" /\ arg' = FADE_OUT_DECREMENT_PER_STEP
       ELSE pc' = "unmute_query" /\ arg' = FADE_IN_INCREMENT_PER_STEP
    /\ UNCHANGED << dev, fs, cmd, ret, i, has_target, target_volume, vol_buffer, err,
                    hist, prev, world >>

\* lines 194-198: branch on the current volume (a failed read panics)
ToggleMute ==
    /\ pc = "toggle"
    /\ IF ~serverUp
       THEN pc' = "panic" /\ err' = DeviceErr /\ arg' = arg
       ELSE /\ err' = err
            /\ IF GetCurrentVol > PA_VOLUME_MUTED
               THEN pc' = "mute_check" /\ arg' = FADE_OUT_DECREMENT_PER_STEP
               ELSE pc' = "unmute_query" /\ arg' = FADE_IN_INCREMENT_PER_STEP
    /\ UNCHANGED << dev, fs, cmd, ret, i, has_target, target_volume, vol_buffer,
                    hist, prev, world >>

\* every step of a running invocation
Step ==
    \/ IncUnmute \/ IncStep \/ IncExit \/ IncReturn
    \/ DecStep \/ DecExit
    \/ MuteCheck \/ MuteBuffer \/ MuteLoop \/ MuteSetFlag \/ MuteSave
    \/ UnmuteQuery \/ UnmuteClearFlag \/ UnmuteLoop
    \/ ToggleMute

Next ==
    \/ \E c \in Commands, a \in Percents : Start(c, a)
    \/ IncUnmute \/ IncStep \/ IncExit \/ IncReturn
    \/ DecStep \/ DecExit
    \/ MuteCheck \/ MuteBuffer \/ MuteLoop \/ MuteSetFlag \/ MuteSave
    \/ UnmuteQuery \/ UnmuteClearFlag \/ UnmuteLoop
    \/ ToggleMute

Spec == Init /\ [][Next]_vars

\* ----------------------------------------- invocations with any argument
\* per-step arguments the command line accepts besides the usual ones: zero
\* and a negative percent (any percent below 1000/65536 gives, like zero, a
\* per-step delta of no volume unit at all)
StepArgs == Percents \cup {0, -5}

NextArgs == (\E c \in Commands, a \in StepArgs : Start(c, a)) \/ Step

\* a started invocation keeps running: one thread, sleeps of 26 ms
SpecArgs == Init /\ [][NextArgs]_vars /\ WF_vars(Step)

\* ------------------------------------------- the sound server goes away
\* the connection to the sound server is lost while an invocation runs
Disconnect ==
    /\ pc \notin {"idle", "done", "panic"}
    /\ serverUp
    /\ serverUp' = FALSE
    /\ UNCHANGED << dev, fs, locals, hist, prev, defaultIsDev, otherVol, proc2 >>

NextFail == Next \/ Disconnect

SpecFail == Init /\ [][NextFail]_vars

\* ------------------------------------------- the default sink changes
\* the user (or the server) makes the other sink the default while the last
\* invocation of the run is under way
SwitchDefault ==
    /\ pc \notin {"idle", "done", "panic"}
    /\ nOps = MaxOps
    /\ defaultIsDev
    /\ defaultIsDev' = FALSE
    /\ UNCHANGED << dev, fs, locals, hist, prev, serverUp, otherVol, proc2 >>

NextSwitch == Next \/ SwitchDefault

SpecSwitch == Init /\ [][NextSwitch]_vars

\* ------------------------------------------- two invocations at once
\* a second `volfade-rs mute` (default argument) is started while the first
\* invocation is inside mute(); it acts on the same sink and the same cache file
P2Start ==
    /\ pc2 = "idle"
    /\ \/ pc \in {"mute_check", "mute_buf", "mute_loop", "mute_flag", "mute_save"}
       \/ pc = "dec_loop" /\ ret = "mute"
    /\ pc2' = IF serverUp THEN "mute_check" ELSE "panic"
    /\ UNCHANGED << dev, fs, locals, hist, prev, server, i2, vol_buffer2 >>

\* lines 164-166
P2MuteCheck ==
    /\ pc2 = "mute_check"
    /\ pc2' = IF ~serverUp THEN "panic"
              ELSE IF GetCurrentVol = PA_VOLUME_MUTED THEN "done" ELSE "mute_buf"
    /\ UNCHANGED << dev, fs, locals, hist, prev, server, i2, vol_buffer2 >>

\* line 170
P2MuteBuffer ==
    /\ pc2 = "mute_buf"
    /\ pc2' = IF serverUp THEN "mute_loop" ELSE "panic"
    /\ vol_buffer2' = (IF serverUp THEN GetCurrentVol ELSE vol_buffer2)
    /\ UNCHANGED << dev, fs, locals, hist, prev, server, i2 >>

\* lines 173-175
P2MuteLoop ==
    /\ pc2 = "mute_loop"
    /\ pc2' = IF ~serverUp THEN "panic"
              ELSE IF GetCurrentVol > PA_VOLUME_MUTED THEN "dec_loop" ELSE "mute_flag"
    /\ i2' = 0
    /\ UNCHANGED << dev, fs, locals, hist, prev, server, vol_buffer2 >>

\* dec_vol lines 156-160
P2DecStep ==
    /\ pc2 = "dec_loop"
    /\ i2 < DEC_STEPS
    /\ vol' = (IF serverUp THEN DecreaseBy(vol, DecDelta(FADE_OUT_DECREMENT_PER_STEP))
               ELSE vol)
    /\ i2' = i2 + 1
    /\ UNCHANGED << muted, fs, locals, hist, prev, server, pc2, vol_buffer2 >>

\* dec_vol lines 156, 161
P2DecExit ==
    /\ pc2 = "dec_loop"
    /\ i2 >= DEC_STEPS
    /\ pc2' = "mute_loop"
    /\ UNCHANGED << dev, fs, locals, hist, prev, server, i2, vol_buffer2 >>

\* line 176
P2MuteSetFlag ==
    /\ pc2 = "mute_flag"
    /\ muted' = (IF serverUp THEN TRUE ELSE muted)
    /\ pc2' = "mute_save"
    /\ UNCHANGED << vol, fs, locals, hist, prev, server, i2, vol_buffer2 >>

\* line 179
P2MuteSave ==
    /\ pc2 = "mute_save"
    /\ IF GetPathErr # "none"
       THEN pc2' = "panic" /\ UNCHANGED << dirExists, file >>
       ELSE /\ dirExists' = TRUE
            /\ file' = FileOf(ToLeBytes(vol_buffer2))
            /\ pc2' = "done"
    /\ UNCHANGED << dev, env, parentExists, locals, hist, prev, server, i2, vol_buffer2 >>

\* both invocations are started on an audible, unmuted sink, in an
\* environment where the cache can be written and holds nothing yet
InitConc ==
    /\ Init
    /\ vol \in {1, DEFAULT_VOLUME \div 2}
    /\ ~muted
    /\ env = "XDG_CACHE_HOME" /\ dirExists /\ file = NoFile

\* the first invocation, or a later one once both earlier ones have ended
StartConc(c) ==
    /\ pc2 \in {"idle", "done", "panic"}
    /\ Start(c, FADE_OUT_DECREMENT_PER_STEP)

NextConc ==
    \/ \E c \in {"mute", "toggle-mute"} : StartConc(c)
    \/ Step
    \/ P2Start \/ P2MuteCheck \/ P2MuteBuffer \/ P2MuteLoop \/ P2DecStep \/ P2DecExit
    \/ P2MuteSetFlag \/ P2MuteSave

SpecConc == InitConc /\ [][NextConc]_vars

\* ------------------------------------------- the cache used on its own
\* volumes handed to save: every byte boundary of the u32 up to Volume::MAX
\* (the largest volume a sink reports), silence, and the built-in default
RoundTripValues ==
    {PA_VOLUME_MUTED, 1, 255, 256, 257, 65535, PA_VOLUME_NORM, 65537, DEFAULT_VOLUME,
     16777215, 16777216, 16909060, PA_VOLUME_MAX - 1, PA_VOLUME_MAX}

\* VolumeCache::save(handler, ToFile::FromBuffer(Volume(x))) called directly
CacheSave(x) ==
    /\ pc \in {"idle", "cache_saved", "cache_queried"}
    /\ saves < MaxOps
    /\ vol_buffer' = x
    /\ IF GetPathErr # "none"
       THEN /\ pc' = "panic" /\ err' = GetPathErr
            /\ UNCHANGED << dirExists, file, saves >>
       ELSE /\ dirExists' = TRUE
            /\ file' = FileOf(ToLeBytes(x))
            /\ saves' = saves + 1
            /\ pc' = "cache_saved" /\ err' = err
    /\ UNCHANGED << dev, env, parentExists, cmd, arg, ret, i, has_target,
                    target_volume, startVol, startMuted, startFile, events,
                    callStart, prev, world >>

\* PreviousVolume::query() called directly
CacheQuery ==
    /\ pc \in {"idle", "cache_saved"}
    /\ IF GetPathErr # "none"
       THEN /\ pc' = "panic" /\ err' = GetPathErr
            /\ UNCHANGED << dirExists, target_volume >>
       ELSE /\ dirExists' = TRUE
            /\ IF QueryErr(file) # "none"
               THEN pc' = "panic" /\ err' = QueryErr(file) /\ target_volume' = target_volume
               ELSE pc' = "cache_queried" /\ err' = err /\ target_volume' = QueryValue(file)
    /\ UNCHANGED << dev, env, parentExists, file, cmd, arg, ret, i, has_target,
                    vol_buffer, hist, prev, world >>

NextCache == (\E x \in RoundTripValues : CacheSave(x)) \/ CacheQuery

SpecCache == Init /\ [][NextCache]_vars

\* ================================================================ properties
IsPrefix(s, t) == Len(s) <= Len(t) /\ \A k \in 1..Len(s) : s[k] = t[k]

\* the invocation is a mute of a device that was audible when it began
\* (the mute subcommand, or toggle-mute taking its mute branch)
MuteOfAudible ==
    /\ cmd \in {"mute", "toggle-mute"}
    /\ startVol > PA_VOLUME_MUTED

\* the invocation is an unmute (the subcommand, or toggle-mute on a silent device)
UnmuteRun ==
    \/ cmd = "unmute"
    \/ cmd = "toggle-mute" /\ startVol = PA_VOLUME_MUTED

\* the cache query of the running unmute has been made
Queried == UnmuteRun /\ pc \notin {"toggle", "unmute_query"}

Malformed(f) == f # NoFile /\ Len(Bytes(f)) # 4

C2_SilentMuteSetsFlag ==
    (cmd = "mute" /\ startVol = PA_VOLUME_MUTED /\ pc = "done") =>
        saves = 0 /\ events = << >> /\ muted = TRUE

\* C2 as the code has it: mute on a silent device returns at once; no cache
\* write, no decrease step, and the mute flag, the volume and the cache file
\* are what they were.
C2_SilentMuteIsNoOp ==
    (cmd = "mute" /\ startVol = PA_VOLUME_MUTED /\ pc = "done") =>
        /\ saves = 0 /\ events = << >>
        /\ muted = startMuted /\ vol = startVol /\ file = startFile

C2_Witness ==
    cmd = "mute" /\ startVol = PA_VOLUME_MUTED /\ pc = "done" /\ ~startMuted /\ ~muted

\* ---- C3 ------------------------------------------------------------------
\* C3: once a mute has faded the device out and completed, after every
\* completed operation the cache holds exactly the volume the device had
\* immediately before the most recent such mute, and that is not silence.
C3_CacheHoldsPreMuteVolume ==
    (pc = "done" /\ preMute # -1) =>
        /\ file = FileOf(ToLeBytes(preMute))
        /\ FromLeBytes(Bytes(file)) # PA_VOLUME_MUTED

C3_Witness ==
    /\ pc = "done" /\ cmd \in {"increase", "decrease", "unmute"}
    /\ preMute > PA_VOLUME_MUTED /\ prevCmd \in {"mute", "toggle-mute"}

\* ---- C4 ------------------------------------------------------------------
\* C4: a completed mute of a device audible at volume V has written the
\* cache exactly once, with V, and leaves the volume at exactly silence and
\* the mute flag set.
C4_CompletedMute ==
    (MuteOfAudible /\ pc = "done") =>
        /\ saves = 1
        /\ file = FileOf(ToLeBytes(startVol))
        /\ vol = PA_VOLUME_MUTED
        /\ muted = TRUE

C4_Witness ==
    MuteOfAudible /\ pc = "done" /\ cmd = "mute" /\ startVol = PA_VOLUME_NORM \div 2

\* ---- C5 ------------------------------------------------------------------
\* C5: a completed mute of an audible device at V followed immediately by a
\* completed unmute ends with the mute flag clear and V <= volume < V + the
\* delta of one increase step.
C5_MuteThenUnmute ==
    (/\ cmd = "unmute" /\ pc = "done"
     /\ prevCmd = "mute" /\ prevPc = "done" /\ prevStartVol > PA_VOLUME_MUTED) =>
        /\ muted = FALSE
        /\ vol >= prevStartVol
        /\ vol < prevStartVol + IncDelta(arg)

C5_Witness ==
    /\ cmd = "unmute" /\ pc = "done"
    /\ prevCmd = "mute" /\ prevPc = "done" /\ prevStartVol = PA_VOLUME_NORM \div 2
    /\ startMuted /\ vol > prevStartVol

\* ---- C6 ------------------------------------------------------------------
\* C6: two completed toggle-mute calls in a row, the first from an audible
\* volume V, bring the volume back to V <= volume < V + one step's delta,
\* whatever the cache file held before the first call.
C6_ToggleTwice ==
    (/\ cmd = "toggle-mute" /\ pc = "done"
     /\ prevCmd = "toggle-mute" /\ prevPc = "done" /\ prevStartVol > PA_VOLUME_MUTED) =>
        /\ vol >= prevStartVol
        /\ vol < prevStartVol + IncDelta(FADE_IN_INCREMENT_PER_STEP)

C6_Witness ==
    /\ cmd = "toggle-mute" /\ pc = "done"
    /\ prevCmd = "toggle-mute" /\ prevPc = "done" /\ prevStartVol > PA_VOLUME_MUTED
    /\ Malformed(prevStartFile)

\* ---- C7 ------------------------------------------------------------------
\* C7 as claimed: when inc_vol with a target T leaves its loop, at most
\* INC_STEPS steps were applied and T <= volume < T + one step's delta.
C7_TargetReachedOnExit ==
    (pc = "inc_ret" /\ has_target) =>
        /\ i <= INC_STEPS
        /\ vol >= target_volume
        /\ vol < target_volume + IncDelta(arg)

\* C7 as the code has it: when inc_vol with a target T leaves its loop, at
\* most INC_STEPS steps were applied, each by one step's delta; either the
\* volume is >= T or all INC_STEPS steps were applied; and if a step was
\* applied the volume is < T + one step's delta.
C7_TargetOrAllSteps ==
    (pc = "inc_ret" /\ has_target) =>
        /\ i <= INC_STEPS
        /\ vol = Min(PA_VOLUME_MAX, callStart + i * IncDelta(arg))
        /\ vol >= target_volume \/ i = INC_STEPS
        /\ i > 0 => vol < target_volume + IncDelta(arg)

C7_Witness ==
    pc = "inc_ret" /\ has_target /\ i = INC_STEPS /\ vol < target_volume

\* ---- C8 ------------------------------------------------------------------
\* C8 as claimed: decrease applies DEC_STEPS steps whose deltas sum to P
\* exactly and leaves the device at max(silence, V - P).
C8_RemovesExactlyP ==
    (cmd = "decrease" /\ pc = "done") =>
        /\ i = DEC_STEPS
        /\ 100 * DEC_STEPS * DecDelta(arg) = arg * PA_VOLUME_NORM
        /\ vol = Max(PA_VOLUME_MUTED, startVol - (arg * PA_VOLUME_NORM) \div 100)

\* C8 as the code has it: decrease applies exactly DEC_STEPS steps, each
\* removing the whole number of volume units in P/DEC_STEPS of full scale;
\* after k steps the volume is max(silence, V - k * delta), never below
\* silence; the deltas sum to at most P, short of it by less than one unit
\* per step.
C8_RemovesTruncatedSteps ==
    (cmd = "decrease" /\ pc \in {"dec_loop", "done"}) =>
        /\ vol = Max(PA_VOLUME_MUTED, startVol - i * DecDelta(arg))
        /\ vol >= PA_VOLUME_MUTED
        /\ pc = "done" => i = DEC_STEPS
        /\ 100 * DEC_STEPS * DecDelta(arg) <= arg * PA_VOLUME_NORM
        /\ arg * PA_VOLUME_NORM - 100 * DEC_STEPS * DecDelta(arg) < 100 * DEC_STEPS

C8_Witness ==
    /\ cmd = "decrease" /\ pc = "done" /\ arg = DEFAULT_DECREMENT
    /\ startVol = PA_VOLUME_NORM \div 2 /\ vol = startVol - DEC_STEPS * DecDelta(arg)

\* ---- C9 ------------------------------------------------------------------
\* C9: the cache query on a file that is not exactly four bytes long returns
\* the built-in default volume and does not fail.
C9_MalformedCacheGivesDefault ==
    (UnmuteRun /\ Malformed(startFile) /\ env # "unset" /\ pc \in {"unmute_flag", "panic"}) =>
        /\ pc = "unmute_flag"
        /\ err = "none"
        /\ target_volume = DEFAULT_VOLUME

\* ---- C10 -----------------------------------------------------------------
\* C10: the cache query in a fresh environment (no cache file; the cache
\* directory and its parent may be missing) returns the built-in default
\* volume, a quarter of full scale, and does not fail.
C10_FreshQueryGivesDefault ==
    (UnmuteRun /\ startFile = NoFile /\ env # "unset" /\ pc \in {"unmute_flag", "panic"}) =>
        /\ pc = "unmute_flag"
        /\ err = "none"
        /\ 4 * target_volume = PA_VOLUME_NORM

\* ---- C11 -----------------------------------------------------------------
\* C11: a query that follows a save of X, with no write in between, returns
\* exactly X (checked for the values of RoundTripValues, under SpecCache).
C11_SaveThenQuery ==
    (pc = "cache_queried" /\ saves > 0) => target_volume = vol_buffer

C11_Witness ==
    /\ pc = "cache_queried" /\ saves > 0 /\ Malformed(startFile)
    /\ vol_buffer = 16909060 /\ target_volume = 16909060

\* ---- C12 -----------------------------------------------------------------
\* C12: every mute and every unmute invocation eventually finishes (returns
\* or fails), whatever per-step argument it is given.
C12_FadesFinish ==
    [](pc \in {"mute_check", "unmute_query"} => <>(pc \in {"done", "panic"}))

\* ---- C13 -----------------------------------------------------------------
\* the next step of the running invocation makes a call to the sound server
DeviceCallNext ==
    \/ pc \in {"inc_unmute", "mute_check", "mute_buf", "mute_loop", "mute_flag",
               "unmute_flag", "unmute_loop", "toggle"}
    \/ pc = "dec_loop" /\ i < DEC_STEPS
    \/ pc = "inc_loop" /\ i < INC_STEPS

\* C13: a step whose device query or volume-set call fails ends the
\* invocation in a failure at once, with the volume and the mute flag as they
\* were.
C13_DeviceFailureAborts ==
    [][(~serverUp /\ DeviceCallNext) =>
          (pc' = "panic" /\ err' # "none" /\ vol' = vol /\ muted' = muted)]_vars

\* ---- C14 -----------------------------------------------------------------
\* C14: the argument of mute (of unmute) is the amount one single step takes
\* off (adds): after k steps of one dec_vol call made by mute the volume is
\* max(silence, V - k * argument percent of full scale), and after k steps of
\* one inc_vol call made by unmute it is V + k * argument percent.
C14_ArgumentIsPerStep ==
    /\ (pc = "dec_loop" /\ ret = "mute") =>
           vol = Max(PA_VOLUME_MUTED, callStart - i * VolumeFromPercent(arg, 1))
    /\ (pc = "inc_loop" /\ ret = "unmute") =>
           vol = Min(PA_VOLUME_MAX, callStart + i * VolumeFromPercent(arg, 1))

\* ---- C15 -----------------------------------------------------------------
\* C15: once an inc_vol call is in its loop or has left it, the mute flag is
\* false, whether or not a step was applied; in an increase invocation the
\* clearing of the flag is the first thing done to the device.
C15_IncreaseClearsFlagFirst ==
    (pc \in {"inc_loop", "inc_ret"}) =>
        /\ ~muted
        /\ IsPrefix(<< "unflag" >>, events)
        /\ i = 0 => vol = callStart

\* an inc_vol call made by unmute that found its target reached at its first
\* read and applied no step, on a device that was muted
C15_Witness ==
    /\ pc = "inc_ret" /\ ret = "unmute" /\ has_target /\ i = 0
    /\ startMuted /\ ~muted /\ vol = callStart

\* ---- C16 -----------------------------------------------------------------
\* C16: toggle-mute on a device above silence runs mute with the fade-out
\* default and only lowers, flags and saves; on a silent device it runs
\* unmute with the fade-in default and only unflags and raises; the mute
\* flag found at the start plays no part.
C16_ToggleBranchByVolume ==
    (cmd = "toggle-mute" /\ pc # "toggle") =>
        IF startVol > PA_VOLUME_MUTED
        THEN /\ arg = FADE_OUT_DECREMENT_PER_STEP
             /\ pc \in {"mute_check", "mute_buf", "mute_loop", "dec_loop", "mute_flag",
                        "mute_save", "done", "panic"}
             /\ \A k \in 1..Len(events) : events[k] \in {"dec", "flag", "save"}
             /\ (pc = "done") => (vol = PA_VOLUME_MUTED /\ muted)
        ELSE /\ arg = FADE_IN_INCREMENT_PER_STEP
             /\ pc \in {"unmute_query", "unmute_flag", "unmute_loop", "inc_unmute",
                        "inc_loop", "inc_ret", "done", "panic"}
             /\ \A k \in 1..Len(events) : events[k] \in {"unflag", "inc"}
             /\ (pc = "done") => ~muted

\* toggle-mute has muted an audible device whose mute flag was already set
C16_Witness ==
    /\ cmd = "toggle-mute" /\ pc = "done"
    /\ startVol > PA_VOLUME_MUTED /\ startMuted
    /\ vol = PA_VOLUME_MUTED /\ muted /\ saves = 1

\* ---- C17 -----------------------------------------------------------------
\* C17: when two overlapping invocations have both finished, the cache does
\* not hold the silence value.
C17_ConcurrentCacheNotSilence ==
    (pc = "done" /\ pc2 = "done" /\ file # NoFile /\ ~Malformed(file)) =>
        FromLeBytes(Bytes(file)) # PA_VOLUME_MUTED

\* ---- C18 -----------------------------------------------------------------
\* C18: an unmute that finds the volume at or above its target applies no
\* step: volume and cache file stay as they were, and at its end the mute
\* flag is false and clearing it is all that was done to the device.
C18_UnmuteAtTargetOnlyUnflags ==
    (cmd = "unmute" /\ pc \in {"unmute_loop", "done"} /\ startVol >= target_volume) =>
        /\ vol = startVol
        /\ file = startFile
        /\ saves = 0
        /\ events = << "unflag" >>
        /\ ~muted

C18_Witness ==
    /\ cmd = "unmute" /\ pc = "done" /\ startMuted /\ ~muted
    /\ startVol = PA_VOLUME_NORM \div 2 /\ target_volume = DEFAULT_VOLUME
    /\ vol = startVol /\ file = NoFile

\* ---- C19 -----------------------------------------------------------------
\* C19: every completed unmute, and every completed toggle-mute begun on a
\* silent device, leaves the volume above silence and the mute flag false.
C19_UnmuteLeavesAudible ==
    (UnmuteRun /\ pc = "done") => (vol > PA_VOLUME_MUTED /\ ~muted)

\* a toggle-mute that muted an audible device, then a toggle-mute that
\* brought it back to the volume it had
C19_Witness ==
    /\ cmd = "toggle-mute" /\ prevCmd = "toggle-mute" /\ pc = "done"
    /\ prevStartVol = PA_VOLUME_NORM \div 2 /\ startVol = PA_VOLUME_MUTED /\ startMuted
    /\ vol >= prevStartVol /\ ~muted

\* ---- C20 -----------------------------------------------------------------
\* C20: the volume mute buffers and caches is the volume of the sink its
\* steps act on (the one main resolved), also when the default sink changes
\* during the run.
C20_MuteCachesItsOwnSink ==
    (cmd = "mute" /\ pc \in {"mute_loop", "dec_loop", "mute_flag", "mute_save", "done"}
     /\ startVol > PA_VOLUME_MUTED) =>
        /\ vol_buffer = startVol
        /\ saves = 1 => file = FileOf(ToLeBytes(startVol))

====
